---- MODULE Spec2Model ----
(***************************************************************************)
(* A model of the socrathink crawler core: the Content Store (CrawlStore), *)
(* the Crawl Scheduler (QueueManager) and the Endpoint Collector.          *)
(*                                                                         *)
(* Strings are modelled by their structure: a URL is a record of scheme,   *)
(* host labels, path segments and '&'-separated query parameters, each     *)
(* parameter a sequence of tokens; a content string is a record of the     *)
(* features the code inspects (length, whether JSON.parse accepts it, the  *)
(* longest space-delimited sequence, whether it is blank).                 *)
(* NeDB collections are bags of documents: documents that agree on every   *)
(* field differ only in their _id, and the order in which an unindexed     *)
(* query returns equal-ranked documents is not fixed by the code.          *)
(***************************************************************************)
EXTENDS Integers, Sequences, FiniteSets, Bags, TLC

VARIABLES
    now,          \* Date.now(), in ticks
    memoryStore,  \* CrawlStore.memoryStore: StoredCrawlData[]
    db,           \* CrawlStore.db: the NeDB collection crawl_db.db
    queueStore,   \* QueueManager.queueStore: the NeDB collection queue-mngr.db
    isProcessing, \* QueueManager.isProcessing
    pc,           \* where the processQueue loop stands: "idle", "next" or "crawl"
    nextItem,     \* processQueue's nextItem while it is being crawled
    loops,        \* the number of processQueue calls that are inside their loop
    aborted,      \* controller.signal.aborted of the crawlUrl call under way
    failedHosts,  \* history: the hosts handleFailedCrawl purged since the
                  \* frontier was last empty
    seeds,        \* handleQueryChange: the relevantUrls it has still to enqueue
    queryPc,      \* where handleQueryChange stands: "idle", "enqueue", "resume"
                  \* or "blocked" (awaiting a processQueue that runs the loop)
    backlog,      \* history: the tasks queued when the query last changed
    seedTasks,    \* history: the tasks the last query change inserted
    marked,       \* history: the urls markAsIngested has returned true for
    called,       \* history: the url the latest enqueue call was given
    inserting,    \* the tasks whose insertQueueItem has checked the size of the
                  \* frontier and has not yet inserted
    lastProcessedDomain, \* QueueManager.lastProcessedDomain (part_004)
    contentLinks, \* addInitialContent: the links it has still to enqueue
    contentPc,    \* where addInitialContent stands: "idle", "enqueue" or
                  \* "blocked" (awaiting a processQueue that runs the loop)
    networkMemory, \* NetworkStore.memoryStore: StoredNetworkData[]
    networkDb,    \* NetworkStore.db: the NeDB collection nwk_store.db
    requestMap,   \* DevToolsCrawler.requestMap: for each requestId under way
                  \* the responseStatus of the entry the crawler holds
    attached,     \* history: for each requestId whose body has been attached,
                  \* the response fields that update wrote
    observations, \* the request/response pairs a collector run is given
    collectorA,   \* an EndpointCollector going over the observations
    pendingA,     \* the observations collectorA has still to be given
    collectorB,   \* a second EndpointCollector going over them in its own order
    pendingB      \* the observations collectorB has still to be given

storeVars == <<memoryStore, db>>

queueVars == <<queueStore, isProcessing, pc, nextItem, loops, aborted, failedHosts>>

seedHistory == <<backlog, seedTasks>>

queryVars == <<seeds, queryPc, backlog, seedTasks>>

callVars == <<called, inserting, lastProcessedDomain>>

contentVars == <<contentLinks, contentPc>>

networkVars == <<networkMemory, networkDb, requestMap, attached>>

collectorVars == <<observations, collectorA, pendingA, collectorB, pendingB>>

vars == <<now, memoryStore, db, queueStore, isProcessing, pc, nextItem, loops,
          aborted, failedHosts, seeds, queryPc, backlog, seedTasks, marked,
          called, inserting, lastProcessedDomain, contentLinks, contentPc,
          networkMemory, networkDb, requestMap, attached,
          observations, collectorA, pendingA, collectorB, pendingB>>

\* ------------------------------------------------------------------ bounds

\* The clock stops advancing at MaxTime.
MaxTime == 1

\* Links deeper than DepthCap are left out of a fetched page.
DepthCap == 2

\* A fetched page holds at most MaxLinks links.
MaxLinks == 1

\* ------------------------------------------------------- program constants

\* Fixed-point scale of scores and metrics: a score of 1.0 is Unit.
Unit == 6

\* CrawlStore.MAX_ITEMS and MEMORY_STORE_SIZE (500 and 200 in the source),
\* scaled down with MEMORY_STORE_SIZE < MAX_ITEMS kept.
MAX_ITEMS == 3
MEMORY_STORE_SIZE == 2

\* QueueManager.MAX_DEPTH and MAX_QUEUE_SIZE (3 and 500 in the source), scaled
\* down.
MAX_DEPTH == 1
MAX_QUEUE_SIZE == 2

\* isUsefulByLength's minLength, hasNoLongValues' maxLength, add's content cap.
MinUsefulLength == 100
MaxTokenLength == 1000
MaxContentLength == 200000

\* --------------------------------------------------------------- utilities

Min(a, b) == IF a < b THEN a ELSE b

Range(s) == {s[i] : i \in 1..Len(s)}

RemoveAt(s, i) == SubSeq(s, 1, i - 1) \o SubSeq(s, i + 1, Len(s))

InsertAt(s, i, e) == SubSeq(s, 1, i - 1) \o <<e>> \o SubSeq(s, i, Len(s))

\* the documents of collection q that are in the set keep
BagSelect(q, keep) == [d \in (BagToSet(q) \cap keep) |-> q[d]]

\* Array.prototype.filter
RECURSIVE SelectSeqBy(_, _)
SelectSeqBy(s, keep) ==
    IF s = <<>> THEN <<>>
    ELSE (IF Head(s) \in keep THEN <<Head(s)>> ELSE <<>>) \o SelectSeqBy(Tail(s), keep)

\* -------------------------------------------------------------------- URLs

Url(scheme, host, path, hasQuery, params) ==
    [scheme |-> scheme, host |-> host, path |-> path,
     hasQuery |-> hasQuery, params |-> params]

\* "utm_source=y" and "b=2": a parameter is the sequence of its tokens.
UtmParam == <<"utm_", "source=y">>
PlainParam == <<"b=2">>

HostA == <<"a", "test">>
HostBad == <<"bad", "test">>

\* https://a.test/x?b=2 and https://a.test/x?utm_source=y&b=2
UA == Url("https", HostA, <<"x">>, TRUE, <<PlainParam>>)
UAutm == Url("https", HostA, <<"x">>, TRUE, <<UtmParam, PlainParam>>)
UB1 == Url("https", HostBad, <<"1">>, FALSE, <<>>)         \* https://bad.test/1
UB2 == Url("https", HostBad, <<"2">>, FALSE, <<>>)         \* https://bad.test/2

\* http://a.test/x?b=2, ftp://a.test/x and https://a.test.example/x
UAhttp == Url("http", HostA, <<"x">>, TRUE, <<PlainParam>>)
UAftp == Url("ftp", HostA, <<"x">>, FALSE, <<>>)
UAlong == Url("https", <<"a", "test", "example">>, <<"x">>, FALSE, <<>>)

\* no url, and no host name
NoUrl == Url("", <<>>, <<>>, FALSE, <<>>)
NoDomain == <<>>

\* the urls the scheduler meets
Urls == {UA, UAutm, UB1}

\* the urls the Content Store is exercised with on its own
StoreUrls == Urls \cup {UB2}

\* param.startsWith('utm_')
StartsWithUtm(param) == Len(param) > 0 /\ param[1] = "utm_"

\* extractQueryParams(url).strippedUrl: url.split('?') gives the base and the
\* query string; a missing or empty query string is falsy and yields the base
\* alone, otherwise the base, a '?' and the parameters that do not start with
\* 'utm_' joined by '&' (the '?' stays when nothing is left).
extractQueryParams(url) ==
    IF url.hasQuery /\ url.params # <<>>
    THEN Url(url.scheme, url.host, url.path, TRUE,
             SelectSeqBy(url.params, {p \in Range(url.params) : ~StartsWithUtm(p)}))
    ELSE Url(url.scheme, url.host, url.path, FALSE, <<>>)

\* ----------------------------------------------------------------- content

Content(len, isJson, maxToken) ==
    [len |-> len, isJson |-> isJson, maxToken |-> maxToken, undef |-> FALSE]

\* content: undefined
Undefined == [len |-> 0, isJson |-> FALSE, maxToken |-> 0, undef |-> TRUE]

EmptyContent == Content(0, FALSE, 0)          \* ''
ShortProse == Content(2, FALSE, 2)            \* 'ok'
ShortJson == Content(2, TRUE, 0)              \* '{}' or '12'
Prose150 == Content(150, FALSE, 12)           \* 150 characters of prose
BlobProse == Content(1500, FALSE, 1200)       \* text holding a 1200-character token
BlobJson == Content(1500, TRUE, 1200)         \* JSON holding such a string value

Contents == {EmptyContent, ShortProse, ShortJson, Prose150, BlobProse, BlobJson}

isUsefulByLength(content) == content.len >= MinUsefulLength

hasNoLongValues(content) == content.maxToken <= MaxTokenLength

isContentUseful(content) ==
    IF content.isJson
    THEN hasNoLongValues(content)
    ELSE isUsefulByLength(content) /\ hasNoLongValues(content)

\* content.slice(0, 200000)
SliceContent(content) ==
    [content EXCEPT !.len = Min(content.len, MaxContentLength),
                    !.maxToken = Min(content.maxToken, MaxContentLength)]

\* ------------------------------------------------------------------ scores

\* The 10 minutes of calculateMetric's decay, in ticks.
RecencyWindow == 2

WEIGHT_DEPTH == 1
WEIGHT_RECENCY == 1
WEIGHT_SIMILARITY == 1

\* QueueManager.calculateMetric for an item stamped `timestamp`, read at `at`
calculateMetric(similarityScore, depth, timestamp, at) ==
    LET recency == at - timestamp
        recencyScore == (Unit * RecencyWindow) \div (RecencyWindow + recency)
    IN  (WEIGHT_SIMILARITY * similarityScore) + (WEIGHT_RECENCY * recencyScore)
            - (WEIGHT_DEPTH * depth * Unit)

\* ----------------------------------------------------------- Content Store

StoredCrawlData(url, content, depth, similarityScore, metric, timestamp) ==
    [urlHash |-> extractQueryParams(url), url |-> url, timestamp |-> timestamp,
     content |-> SliceContent(content), depth |-> depth, ingested |-> FALSE,
     similarityScore |-> similarityScore, metric |-> metric]

\* CrawlStore.get: the front buffer first, then the backing store, by url
StoreHas(mem, dbv, url) ==
    \/ \E i \in 1..Len(mem) : mem[i].url = url
    \/ \E d \in BagToSet(dbv) : d.url = url

\* CrawlStore.size
StoreSize(mem, dbv) == Len(mem) + BagCardinality(dbv)

\* the comparator of sortMemoryStore: a sorts before b
MemBefore(a, b) ==
    \/ a.similarityScore > b.similarityScore
    \/ a.similarityScore = b.similarityScore /\ a.timestamp > b.timestamp

\* one insertion of a stable insertion sort
MemInsert(sorted, e) ==
    LET later == {i \in 1..Len(sorted) : MemBefore(e, sorted[i])}
    IN  IF later = {} THEN Append(sorted, e)
        ELSE InsertAt(sorted, CHOOSE i \in later : \A j \in later : i <= j, e)

\* sortMemoryStore: Array.prototype.sort is stable
RECURSIVE sortMemoryStore(_)
sortMemoryStore(mem) ==
    IF mem = <<>> THEN <<>>
    ELSE MemInsert(sortMemoryStore(SubSeq(mem, 1, Len(mem) - 1)), mem[Len(mem)])

\* db.find({}).sort({timestamp: 1}).limit(count) followed by the removal of
\* each document found: the possible remaining collections.  A NeDB cursor
\* treats a limit of 0 as no limit.
removeOldestEntries(dbv, count) ==
    LET n == IF count = 0 THEN BagCardinality(dbv) ELSE Min(count, BagCardinality(dbv))
    IN  {rest \in SubBag(dbv) :
            /\ BagCardinality(rest) = BagCardinality(dbv) - n
            /\ \A kept \in BagToSet(rest) :
                   \A gone \in BagToSet(dbv (-) rest) : gone.timestamp <= kept.timestamp}

\* CrawlStore.add: the possible outcomes [mem, db, ok] of a call at time `at`
\* (ok is the value returned)
add(mem, dbv, url, content, depth, similarityScore, metric, at) ==
    LET newEntry == StoredCrawlData(url, content, depth, similarityScore, metric, at)
    IN  IF ~isContentUseful(content) \/ StoreHas(mem, dbv, url)
        THEN {[mem |-> mem, db |-> dbv, ok |-> FALSE]}
        ELSE IF Len(mem) < MEMORY_STORE_SIZE
        THEN {[mem |-> sortMemoryStore(Append(mem, newEntry)), db |-> dbv, ok |-> TRUE]}
        ELSE LET currentCount == StoreSize(mem, dbv)
                 evicted == IF currentCount >= MAX_ITEMS
                            THEN removeOldestEntries(dbv, currentCount - MAX_ITEMS)
                            ELSE {dbv}
             IN  {[mem |-> mem, db |-> rest (+) SetToBag({newEntry}), ok |-> TRUE] :
                      rest \in evicted}

\* an ingestion mark that leaves the content in place
IngestedKeepsContent(item) == [item EXCEPT !.ingested = TRUE]

\* memoryItem.ingested = true; memoryItem.content = undefined
Ingested(item) == [item EXCEPT !.ingested = TRUE, !.content = Undefined]

\* CrawlStore.markAsIngested: the possible outcomes [mem, db, ok]
markAsIngested(mem, dbv, url) ==
    LET found == {i \in 1..Len(mem) : mem[i].url = url}
    IN  IF found # {}
        THEN LET memoryIndex == CHOOSE i \in found : \A j \in found : i <= j
             IN  {[mem |-> RemoveAt(mem, memoryIndex),
                   db |-> dbv (+) SetToBag({Ingested(mem[memoryIndex])}),
                   ok |-> TRUE]}
        ELSE LET docs == {d \in BagToSet(dbv) : d.url = url}
             IN  IF docs = {}
                 THEN {[mem |-> mem, db |-> dbv, ok |-> FALSE]}
                 ELSE {[mem |-> mem,
                        db |-> (dbv (-) SetToBag({d})) (+) SetToBag({Ingested(d)}),
                        ok |-> TRUE] : d \in docs}

\* The 5 minutes of getUnIngested's context query, in ticks.
ContextWindow == 1

\* the orders in which a sorted cursor can return the documents of a
\* collection, `before` being the pairs <<a, b>> of which the sort puts a
\* first: documents that rank equal come in any order
SortedDocs(dbv, before) ==
    {s \in [1..BagCardinality(dbv) -> BagToSet(dbv)] :
        /\ \A d \in BagToSet(dbv) : Cardinality({i \in DOMAIN s : s[i] = d}) = dbv[d]
        /\ \A i, j \in DOMAIN s : i < j => <<s[j], s[i]>> \notin before}

\* cursor.limit(n), applied after the sort: a limit of 0 is no limit
CursorLimit(docs, n) ==
    IF n = 0 THEN docs ELSE SubSeq(docs, 1, Min(n, Len(docs)))

\* sort({depth: 1, timestamp: -1})
ContextBefore(a, b) ==
    \/ a.depth < b.depth
    \/ a.depth = b.depth /\ a.timestamp > b.timestamp

\* sort({metric: -1, timestamp: -1})
MetricBefore(a, b) ==
    \/ a.metric > b.metric
    \/ a.metric = b.metric /\ a.timestamp > b.timestamp

\* Array.from(new Map(entries.map(item => [item.url, item])).values()): a url
\* stands where it first came and carries the entry that came last
UniqueByUrl(entries) ==
    LET firsts == {i \in 1..Len(entries) :
                      \A j \in 1..Len(entries) : entries[j].url = entries[i].url => i <= j}
        last(i) == CHOOSE j \in 1..Len(entries) :
                       /\ entries[j].url = entries[i].url
                       /\ \A k \in 1..Len(entries) :
                              entries[k].url = entries[i].url => k <= j
        RECURSIVE build(_)
        build(i) == IF i > Len(entries) THEN <<>>
                    ELSE (IF i \in firsts THEN <<entries[last(i)]>> ELSE <<>>)
                             \o build(i + 1)
    IN  build(1)

\* CrawlStore.getUnIngested(limit) called at time `at`: the possible results
getUnIngested(mem, dbv, limit, at) ==
    LET memoryUnIngested == SelectSeq(mem, LAMBDA item : ~item.ingested)
        recent == BagSelect(dbv, {d \in BagToSet(dbv) :
                                     d.depth <= 1 /\ d.timestamp >= at - ContextWindow})
        fresh == BagSelect(dbv, {d \in BagToSet(dbv) : ~d.ingested})
    IN  {LET uniqueEntries == UniqueByUrl(memoryUnIngested \o CursorLimit(context, limit)
                                              \o CursorLimit(dbEntries, limit))
         IN  SubSeq(uniqueEntries, 1, Min(limit, Len(uniqueEntries))) :
            context \in SortedDocs(recent,
                          {p \in BagToSet(recent) \X BagToSet(recent) :
                              ContextBefore(p[1], p[2])}),
            dbEntries \in SortedDocs(fresh,
                            {p \in BagToSet(fresh) \X BagToSet(fresh) :
                                MetricBefore(p[1], p[2])})}

\* Date.now() moves on
Tick ==
    /\ now < MaxTime
    /\ now' = now + 1

\* similarity(currentActiveQuery, content), at a fixed active query
similarity(content) == IF content.isJson THEN 0 ELSE Unit

\* similarity(currentActiveQuery, text) for the text of a url or the lines
\* around a link to it, at a fixed active query
urlSimilarity(url) == IF url.host = HostA THEN Unit ELSE 0

\* --------------------------------------------------------- Crawl Scheduler

QueueItem(url, depth, timestamp, similarityScore, metric) ==
    [url |-> url, depth |-> depth, timestamp |-> timestamp,
     similarityScore |-> similarityScore, metric |-> metric]

\* nextItem when nothing is being crawled
NoItem == QueueItem(UA, 0, 0, 0, 0)

\* removeLowestScoringItem: find({}).sort({metric: 1}).limit(1), then remove it
removeLowestScoringItem(q) ==
    IF q = EmptyBag THEN {q}
    ELSE {q (-) SetToBag({d}) :
              d \in {x \in BagToSet(q) : \A y \in BagToSet(q) : x.metric <= y.metric}}

\* insertQueueItem: the metric is calculated at time `at`, after the size check
insertQueueItem(q, item, at) ==
    LET room == IF BagCardinality(q) >= MAX_QUEUE_SIZE
                THEN removeLowestScoringItem(q)
                ELSE {q}
        scored == [item EXCEPT !.metric = calculateMetric(item.similarityScore,
                                              item.depth, item.timestamp, at)]
    IN  {rest (+) SetToBag({scored}) : rest \in room}

AllowedProtocols == {"https", "http", "socrathink"}

\* an enqueue that does not look at the protocol
EnqueueIgnoresProtocol(mem, dbv, url) == ~StoreHas(mem, dbv, url)

\* an enqueue that does not look into the Content Store
EnqueueIgnoresStore(mem, dbv, url) == url.scheme \in AllowedProtocols

\* enqueue goes on to insertQueueItem and processQueue
enqueueAccepts(mem, dbv, url) ==
    /\ ~StoreHas(mem, dbv, url)
    /\ url.scheme \in AllowedProtocols

\* QueueManager.enqueue up to its call of processQueue: the possible queues.
\* The item is stamped at `stamp`; its metric is calculated at `at`.
enqueue(q, mem, dbv, url, depth, similarityScore, stamp, at) ==
    IF enqueueAccepts(mem, dbv, url)
    THEN insertQueueItem(q, QueueItem(url, depth, stamp, similarityScore, 0), at)
    ELSE {q}

\* getNextQueueItem: find({}).sort({depth: 1, metric: -1}).limit(1)
getNextQueueItem(q) ==
    {d \in BagToSet(q) :
        \A e \in BagToSet(q) :
            ~(e.depth < d.depth \/ (e.depth = d.depth /\ e.metric > d.metric))}

\* removeQueueItem: remove({url}, {}) removes one matching document
removeQueueItem(q, url) ==
    LET docs == {d \in BagToSet(q) : d.url = url}
    IN  IF docs = {} THEN {q} ELSE {q (-) SetToBag({d}) : d \in docs}

\* s is a prefix of t
IsPrefix(s, t) == Len(s) <= Len(t) /\ SubSeq(t, 1, Len(s)) = s

\* new RegExp(`^https?://${domain}`) tested on a queued url
MatchesDomain(url, domain) ==
    url.scheme \in {"http", "https"} /\ IsPrefix(domain, url.host)

\* handleFailedCrawl: remove({url: /^https?:\/\/domain/}, {multi: true})
handleFailedCrawl(q, url) ==
    BagSelect(q, {d \in BagToSet(q) : ~MatchesDomain(d.url, url.host)})

\* the enqueue calls of handleCrawlResult, one per link, on each possible queue
RECURSIVE enqueueLinks(_, _, _, _, _, _, _)
enqueueLinks(qs, mem, dbv, links, depth, stamp, at) ==
    IF links = <<>> THEN qs
    ELSE enqueueLinks(
             UNION {enqueue(q, mem, dbv, Head(links).link, depth, Head(links).score,
                            stamp, at) : q \in qs},
             mem, dbv, Tail(links), depth, stamp, at)

\* handleCrawlResult: the possible outcomes [mem, db, queue]
handleCrawlResult(q, mem, dbv, url, content, links, depth, stamp, at) ==
    LET stored == IF content.len > 0
                  THEN add(mem, dbv, url, content, depth, similarity(content),
                           calculateMetric(similarity(content), depth, stamp, stamp),
                           stamp)
                  ELSE {[mem |-> mem, db |-> dbv, ok |-> FALSE]}
    IN  UNION {{[mem |-> o.mem, db |-> o.db, queue |-> q2] :
                   q2 \in enqueueLinks({q}, o.mem, o.db, links, depth + 1, stamp, at)} :
               o \in stored}

\* ------------------------------------------------------ Endpoint Collector

\* JSON values (`any`): a record of the type tag, the properties of an object
\* in their order (pairs of key and value) and the length of a string.
\* Concrete numbers and characters are left out; the payloads of the model
\* hold no arrays.
JsonObject(props) == [t |-> "object", props |-> props, len |-> 0]
JsonString(len) == [t |-> "string", props |-> <<>>, len |-> len]
JsonNumber == [t |-> "number", props |-> <<>>, len |-> 0]
JsonNull == [t |-> "null", props |-> <<>>, len |-> 0]

\* String.prototype.toLowerCase on the strings of the model
toLowerCase(str) ==
    CASE str = "IBM" -> "ibm"
      [] str = "AAPL" -> "aapl"
      [] OTHER -> str

\* String.prototype.length of the query values of the model
StringLength(str) ==
    CASE str = "USD" -> 3
      [] str = "EUR" -> 3
      [] OTHER -> 10

\* the decimal strings "0", "1", ...: the keys Object.keys gives for a string
IndexKeys == <<"0", "1", "2", "3">>

\* `:param${index}`
ParamNames == <<":param0", ":param1", ":param2", ":param3">>

\* Object.keys(value), for the values it does not throw on
ObjectKeys(value) ==
    CASE value.t = "object" -> [i \in 1..Len(value.props) |-> value.props[i][1]]
      [] value.t = "string" -> SubSeq(IndexKeys, 1, value.len)
      [] OTHER -> <<>>

\* Object.keys(null) throws a TypeError
ObjectKeysThrows(value) == value.t = "null"

\* an observed url: its pathname segments and its searchParams entries (pairs
\* of key and value), all urls being of one origin
EndpointUrl(path, query) == [path |-> path, query |-> query]

RequestResponsePair(url, requestPayload, responsePayload) ==
    [url |-> url, requestPayload |-> requestPayload,
     responsePayload |-> responsePayload]

determineQueryParamType(value) ==
    IF StringLength(value) > 5 THEN "dynamic" ELSE "enum"

\* determineQueryParams: a later entry of the same key overwrites an earlier one
determineQueryParams(query) ==
    LET keys == {query[i][1] : i \in 1..Len(query)}
        last(k) == CHOOSE i \in 1..Len(query) :
                       query[i][1] = k /\ \A j \in 1..Len(query) : query[j][1] = k => j <= i
    IN  [k \in keys |-> determineQueryParamType(query[last(k)][2])]

\* generalizePath: the pattern as the sequence of its segments
generalizePath(path, response) ==
    LET operations == {toLowerCase(k) : k \in Range(ObjectKeys(response))}
    IN  [i \in 1..Len(path) |->
            IF toLowerCase(path[i]) \in operations THEN path[i]
            ELSE IF i = 1 THEN path[i]
            ELSE ParamNames[i]]

extractPathInfo(url, response) ==
    [path |-> generalizePath(url.path, response),
     queryParams |-> determineQueryParams(url.query)]

\* jsonToSchema: properties holds the pairs of key and schema in the order
\* of Object.keys
RECURSIVE jsonToSchema(_)
jsonToSchema(obj) ==
    IF obj.t = "object"
    THEN [type |-> "object",
          properties |-> [i \in 1..Len(obj.props) |->
                              <<obj.props[i][1], jsonToSchema(obj.props[i][2])>>],
          required |-> [i \in 1..Len(obj.props) |-> obj.props[i][1]]]
    ELSE [type |-> obj.t, properties |-> <<>>, required |-> <<>>]

\* generateSchemaSignature: JSON.stringify writes the two schemas out key by
\* key in their order, so two signatures are equal exactly when the schemas are
generateSchemaSignature(request, response) ==
    [requestSchema |-> jsonToSchema(request), responseSchema |-> jsonToSchema(response)]

ProcessedEndpointInfo(pair, pathInfo, schemaSignature) ==
    [url |-> pair.url, requestPayload |-> pair.requestPayload,
     responsePayload |-> pair.responsePayload, pathInfo |-> pathInfo,
     schemaSignature |-> schemaSignature]

\* Tool._queryParamOptions after one more entry: an object of Sets keeps its
\* keys and each Set its values in the order they were first added
AddOption(options, key, value) ==
    LET at == {i \in 1..Len(options) : options[i].key = key}
    IN  IF at = {} THEN Append(options, [key |-> key, values |-> <<value>>])
        ELSE LET i == CHOOSE j \in at : TRUE
             IN  IF value \in Range(options[i].values) THEN options
                 ELSE [options EXCEPT ![i].values = Append(@, value)]

\* Tool.updateQueryParamOptions
RECURSIVE updateQueryParamOptions(_, _)
updateQueryParamOptions(options, query) ==
    IF query = <<>> THEN options
    ELSE updateQueryParamOptions(AddOption(options, Head(query)[1], Head(query)[2]),
                                 Tail(query))

\* new Tool(name, pattern, schemaSignature)
Tool(name, pattern, schemaSignature) ==
    [name |-> name, pattern |-> pattern, schemaSignature |-> schemaSignature,
     endpoints |-> <<>>, queryParamOptions |-> <<>>]

\* Tool.addEndpoint
addEndpoint(tool, endpoint) ==
    [tool EXCEPT !.endpoints = Append(@, endpoint),
                 !.queryParamOptions = updateQueryParamOptions(@, endpoint.url.query)]

\* extractToolName: the first segment of the pattern
extractToolName(pattern) == IF Len(pattern) > 0 THEN pattern[1] ELSE ""

\* a tool that only has to share the path of the endpoint
MatchesPatternOnly(tool, endpoint) == tool.pattern = endpoint.pathInfo.path

\* a find that comes back empty whatever the tools are
MatchesNoTool(tool, endpoint) == FALSE

\* the test of assignToTool's find
MatchesTool(tool, endpoint) ==
    /\ tool.pattern = endpoint.pathInfo.path
    /\ tool.schemaSignature = endpoint.schemaSignature

\* assignToTool: the tools after the endpoint joined the first tool that
\* matches it, or a new tool
assignToTool(tools, endpoint) ==
    LET found == {i \in 1..Len(tools) : MatchesTool(tools[i], endpoint)}
    IN  IF found # {}
        THEN LET i == CHOOSE j \in found : \A k \in found : j <= k
             IN  [tools EXCEPT ![i] = addEndpoint(@, endpoint)]
        ELSE Append(tools,
                    addEndpoint(Tool(extractToolName(endpoint.pathInfo.path),
                                     endpoint.pathInfo.path, endpoint.schemaSignature),
                                endpoint))

\* new EndpointCollector()
EmptyCollector == [endpoints |-> <<>>, tools |-> <<>>]

\* processEndpoint after its test of the url, as deriveTools calls it inside
\* try/catch: when Object.keys throws on the response the call ends before
\* anything is recorded
recordEndpoint(collector, pair) ==
    IF ObjectKeysThrows(pair.responsePayload)
    THEN collector
    ELSE LET processedInfo ==
                 ProcessedEndpointInfo(pair,
                     extractPathInfo(pair.url, pair.responsePayload),
                     generateSchemaSignature(pair.requestPayload, pair.responsePayload))
         IN  [endpoints |-> Append(collector.endpoints, processedInfo),
              tools |-> assignToTool(collector.tools, processedInfo)]

\* processEndpoint: a pair whose url was processed is skipped
processEndpoint(collector, pair) ==
    IF \E i \in 1..Len(collector.endpoints) : collector.endpoints[i].url = pair.url
    THEN collector
    ELSE recordEndpoint(collector, pair)

\* ------------------------------------------------------------- the worker

\* the content simpleFetch extracted: its length, and its length after trim()
FetchedText(len, trimmed) == [len |-> len, trimmed |-> trimmed]

\* '', ' ', ' \n ', 'ok' and ' ok '
FetchedTexts ==
    {FetchedText(0, 0), FetchedText(1, 0), FetchedText(3, 0), FetchedText(2, 2),
     FetchedText(4, 2)}

\* crawlUrl after simpleFetch has returned `content`: the test is
\* content && content.trim().length === 0, and '' is falsy
crawlUrl(url, depth, content) ==
    IF content.len > 0 /\ content.trimmed = 0
    THEN [url |-> url, content |-> FetchedText(0, 0), completed |-> FALSE]
    ELSE [url |-> url, content |-> content, completed |-> TRUE]

\* part.substring(1) of a placeholder: 'param0', 'param1', ...
BareParamNames == <<"param0", "param1", "param2", "param3">>

\* A query parameter with at most MaxEnumValues observed values is an enum.
MaxEnumValues == 5

\* generateToolDefinitions: the object toolDefinitions after the loop over the
\* tools, as a function of its keys.  toolDefinitions[name] is assigned once
\* for each tool, so the entry of a name is that of the last tool of the name.
generateToolDefinitions(tools) ==
    LET pathParams(tool) ==
            LET at == SelectSeqBy(tool.pattern, Range(ParamNames))
            IN  [i \in 1..Len(at) |->
                    BareParamNames[CHOOSE k \in 1..Len(ParamNames) : ParamNames[k] = at[i]]]
        queryProperty(option) ==
            [name |-> option.key,
             enum |-> IF Len(option.values) <= MaxEnumValues THEN option.values
                      ELSE <<>>]
        definition(tool) ==
            [description |-> tool.name,
             parameters |->
                 [properties |->
                      [i \in 1..Len(pathParams(tool)) |->
                          [name |-> pathParams(tool)[i], enum |-> <<>>]]
                      \o [i \in 1..Len(tool.queryParamOptions) |->
                             queryProperty(tool.queryParamOptions[i])],
                  required |->
                      pathParams(tool)
                      \o [i \in 1..Len(tool.queryParamOptions) |->
                             tool.queryParamOptions[i].key]]]
        last(name) == CHOOSE i \in 1..Len(tools) :
                          /\ tools[i].name = name
                          /\ \A j \in 1..Len(tools) : tools[j].name = name => j <= i
    IN  [name \in {tools[i].name : i \in 1..Len(tools)} |-> definition(tools[last(name)])]

\* a filter that keeps every Tool that has an endpoint
HasEndpoint(tool) == Len(tool.endpoints) > 0

\* the test of deriveTools' filter: tool.endpoints.length > 1
HasSeveralEndpoints(tool) == Len(tool.endpoints) > 1

\* what deriveTools resolves with after the collector's pass, and getTools
\* returns: collector.getTools().filter(...)
getTools(collector) == SelectSeq(collector.tools, HasSeveralEndpoints)

\* ------------------------------------------------------------ Network Store

\* MAX_ITEMS and MEMORY_STORE_SIZE of the NetworkStore (500 and 50 in the code)
NETWORK_MAX_ITEMS == 2
NETWORK_MEMORY_STORE_SIZE == 1

\* The 50000 characters updateLogWithResponse keeps of a body.
MaxBodyLength == 2

\* a response body: a string of `len` characters.  The long bodies of the
\* model are no JSON.
Body(len) == [len |-> len]

\* responseBody: undefined
NoBody == [len |-> -1]

\* the headers of a response of a status; {} before a response
NoHeaders == [status |-> 0]
HeadersOf(status) == [status |-> status]

\* sha256 of a string; contentHash: '' before a response
hashString(body) == [sha256 |-> body]
NoHash == [sha256 |-> NoBody]

\* newEntry of addRequestToLog
StoredNetworkData(requestId, url, at) ==
    [requestId |-> requestId, url |-> url, responseStatus |-> 0,
     responseHeaders |-> NoHeaders, responseBody |-> NoBody, contentHash |-> NoHash,
     timestamp |-> at]

\* NetworkStore.size
NetworkSize(mem, dbv) == Len(mem) + BagCardinality(dbv)

\* memoryStore.push(newEntry) and sortMemoryStore (timestamp descending,
\* stable) on a buffer that is sorted
pushSorted(mem, newEntry) ==
    LET older == {i \in 1..Len(mem) : mem[i].timestamp < newEntry.timestamp}
    IN  IF older = {} THEN Append(mem, newEntry)
        ELSE InsertAt(mem, CHOOSE i \in older : \A j \in older : i <= j, newEntry)

\* addRequestToLog: the possible outcomes [mem, db, stored]
addRequestToLog(mem, dbv, requestId, url, type, at) ==
    IF type \notin {"XHR", "Fetch"}
    THEN {[mem |-> mem, db |-> dbv, stored |-> FALSE]}
    ELSE LET newEntry == StoredNetworkData(requestId, url, at)
         IN  IF Len(mem) < NETWORK_MEMORY_STORE_SIZE
             THEN {[mem |-> pushSorted(mem, newEntry), db |-> dbv, stored |-> TRUE]}
             ELSE LET currentCount == NetworkSize(mem, dbv)
                      evicted == IF currentCount >= NETWORK_MAX_ITEMS
                                 THEN removeOldestEntries(dbv,
                                          currentCount - NETWORK_MAX_ITEMS)
                                 ELSE {dbv}
                  IN  {[mem |-> mem, db |-> rest (+) SetToBag({newEntry}),
                        stored |-> TRUE] : rest \in evicted}

\* truncateJSON of a body that is no JSON: jsonString.slice(0, maxLength)
truncatedBody(rawBody) ==
    IF rawBody.len > MaxBodyLength THEN Body(MaxBodyLength) ELSE rawBody

\* an entry after Object.assign, or $set, of updatedEntry; details.body || ''
\* is the empty string for a body that is undefined
Updated(entry, status, headers, body) ==
    LET rawBody == IF body = NoBody THEN Body(0) ELSE body
    IN  [entry EXCEPT !.responseStatus = status, !.responseHeaders = headers,
                      !.responseBody = truncatedBody(rawBody),
                      !.contentHash = hashString(rawBody)]

\* an update that leaves the body alone when it is given none
UpdatedWhenBody(entry, status, headers, body) ==
    IF body = NoBody
    THEN [entry EXCEPT !.responseStatus = status, !.responseHeaders = headers]
    ELSE [entry EXCEPT !.responseStatus = status, !.responseHeaders = headers,
                       !.responseBody = truncatedBody(body),
                       !.contentHash = hashString(body)]

\* updateLogWithResponse: the possible outcomes [mem, db]; the entry of the
\* buffer with the requestId, or else one document of the collection
updateLogWithResponse(mem, dbv, requestId, status, headers, body) ==
    LET found == {i \in 1..Len(mem) : mem[i].requestId = requestId}
    IN  IF found # {}
        THEN LET memoryIndex == CHOOSE i \in found : \A j \in found : i <= j
             IN  {[mem |-> [mem EXCEPT ![memoryIndex] = Updated(@, status, headers, body)],
                   db |-> dbv]}
        ELSE LET docs == {d \in BagToSet(dbv) : d.requestId = requestId}
             IN  IF docs = {} THEN {[mem |-> mem, db |-> dbv]}
                 ELSE {[mem |-> mem,
                        db |-> (dbv (-) SetToBag({d}))
                                   (+) SetToBag({Updated(d, status, headers, body)})] :
                           d \in docs}

\* the query of deriveTools: db.find({responseStatus: {$gte: 200, $lt: 300},
\* responseBody: {$exists: true}})
findPairs(dbv) ==
    {d \in BagToSet(dbv) :
        d.responseStatus >= 200 /\ d.responseStatus < 300 /\ d.responseBody # NoBody}

\* a query that goes through the buffer as well
findPairsEverywhere(mem, dbv) ==
    {d \in Range(mem) \cup BagToSet(dbv) :
        d.responseStatus >= 200 /\ d.responseStatus < 300 /\ d.responseBody # NoBody}

\* ---------------------------------------------- the Content Store on its own

InitStore ==
    /\ now = 0
    /\ memoryStore = <<>>
    /\ db = EmptyBag
    /\ queueStore = EmptyBag
    /\ isProcessing = FALSE
    /\ pc = "idle"
    /\ nextItem = NoItem
    /\ loops = 0
    /\ aborted = FALSE
    /\ failedHosts = {}
    /\ seeds = <<>>
    /\ queryPc = "idle"
    /\ backlog = {}
    /\ seedTasks = {}
    /\ marked = {}
    /\ called = NoUrl
    /\ inserting = EmptyBag
    /\ lastProcessedDomain = NoDomain
    /\ contentLinks = <<>>
    /\ contentPc = "idle"
    /\ networkMemory = <<>>
    /\ networkDb = EmptyBag
    /\ requestMap = <<>>
    /\ attached = <<>>
    /\ observations = {}
    /\ collectorA = EmptyCollector
    /\ pendingA = {}
    /\ collectorB = EmptyCollector
    /\ pendingB = {}

\* add as QueueManager.handleCrawlResult and addInitialContent call it: the
\* score is the similarity of the content and the metric is calculateMetric
\* of the new record at the time of the call
StoreAddStep(url, content) ==
    \E o \in add(memoryStore, db, url, content, 0, similarity(content),
                 calculateMetric(similarity(content), 0, now, now), now) :
        /\ memoryStore' = o.mem
        /\ db' = o.db
        /\ UNCHANGED <<now, queueVars, queryVars, marked, callVars,contentVars, networkVars,
                   collectorVars>>

StoreAdd == \E url \in StoreUrls, content \in Contents : StoreAddStep(url, content)

StoreMarkAsIngested ==
    \E url \in StoreUrls :
        \E o \in markAsIngested(memoryStore, db, url) :
            /\ memoryStore' = o.mem
            /\ db' = o.db
            /\ marked' = IF o.ok THEN marked \cup {url} ELSE marked
            /\ UNCHANGED <<now, queueVars, queryVars, callVars,contentVars, networkVars,
                   collectorVars>>

StoreTick ==
    /\ Tick
    /\ UNCHANGED <<storeVars, queueVars, queryVars, marked, callVars,contentVars, networkVars,
                   collectorVars>>

NextStore == StoreAdd \/ StoreMarkAsIngested \/ StoreTick

SpecStore == InitStore /\ [][NextStore]_vars

LinkScores == {[link |-> u, score |-> urlSimilarity(u)] : u \in Urls}

RECURSIVE SeqsUpTo(_, _)
SeqsUpTo(S, n) ==
    IF n = 0 THEN {<<>>}
    ELSE SeqsUpTo(S, n - 1) \cup
         {Append(s, e) : s \in {t \in SeqsUpTo(S, n - 1) : Len(t) = n - 1}, e \in S}

\* the clock may move between the two Date.now() reads of an enqueue
Delays == {dt \in 0..1 : now + dt <= MaxTime}

\* the hosts that stay failed in the queue generation of frontier q: a
\* generation ends when the frontier is empty
Generation(q, hosts) == IF q = EmptyBag THEN {} ELSE hosts

\* processQueue without its guard
StartLoopUnguarded ==
    isProcessing' = TRUE /\ pc' = "next" /\ loops' = loops + 1

\* processQueue when called at the end of enqueue: starts the loop if none runs
StartLoop ==
    IF isProcessing
    THEN UNCHANGED <<isProcessing, pc, loops>>
    ELSE isProcessing' = TRUE /\ pc' = "next" /\ loops' = loops + 1

\* addInitialUrl(url)
AddInitialUrl ==
    \E url \in Urls, dt \in Delays :
        /\ enqueueAccepts(memoryStore, db, url)
        /\ queueStore' \in enqueue(queueStore, memoryStore, db, url, 0,
                                   urlSimilarity(url), now, now + dt)
        /\ now' = now + dt
        /\ StartLoop
        /\ UNCHANGED <<storeVars, nextItem, aborted, failedHosts, queryVars, marked, callVars,
                       contentVars, networkVars,
                       collectorVars>>

\* what a fetched page can hold
FetchContents == {Prose150}

\* handleQueryChange is given at most MaxSeeds relevant urls.
MaxSeeds == 2

\* the urls fetchRelevantInitialUrls finds
SeedUrls == {UA, UB1}

\* the fixed similarity score handleQueryChange enqueues its urls with
SeedScore == 100000 * Unit

\* the 'queryChanged' event: handleQueryChange has fetched its relevantUrls
\* and stands before its loop over them.  A call that waits for the
\* scheduler loop to end stays behind; a new event starts a new call.
QueryChange ==
    /\ queryPc \in {"idle", "blocked"}
    /\ seeds' \in SeqsUpTo(SeedUrls, MaxSeeds)
    /\ queryPc' = "enqueue"
    /\ UNCHANGED <<now, storeVars, queueVars, marked, callVars,contentVars, networkVars,
                   collectorVars>>

\* one turn of handleQueryChange's loop: await this.enqueue(url, 0, 100000).
\* enqueue ends in `await this.processQueue()`, which returns at once when
\* the loop runs and otherwise runs the loop itself and does not return.
EnqueueSeed ==
    /\ queryPc = "enqueue"
    /\ seeds # <<>>
    /\ seeds' = Tail(seeds)
    /\ IF enqueueAccepts(memoryStore, db, Head(seeds))
       THEN \E dt \in Delays :
                /\ queueStore' \in enqueue(queueStore, memoryStore, db, Head(seeds), 0,
                                           SeedScore, now, now + dt)
                /\ now' = now + dt
                /\ StartLoop
                /\ queryPc' = IF isProcessing THEN "enqueue" ELSE "blocked"
       ELSE UNCHANGED <<now, queueStore, isProcessing, pc, loops, queryPc>>
    /\ UNCHANGED <<storeVars, nextItem, aborted, failedHosts, marked, callVars,contentVars, networkVars,
                   collectorVars>>

\* history: the tasks a step has added to the frontier
Inserted ==
    {d \in BagToSet(queueStore') : CopiesIn(d, queueStore') > CopiesIn(d, queueStore)}

\* handleQueryChange after its loop: await this.processQueue()
QueryResume ==
    /\ queryPc = "enqueue"
    /\ seeds = <<>>
    /\ StartLoop
    /\ queryPc' = IF isProcessing THEN "idle" ELSE "blocked"
    /\ UNCHANGED <<now, storeVars, queueStore, nextItem, aborted, failedHosts, seeds,
                   marked, callVars,contentVars, networkVars,
                   collectorVars>>

\* the awaited enqueue calls of addInitialContent, one link after the other:
\* the possible queues.  With no loop running, the first enqueue that inserts
\* its task runs the loop and the calls after it are never made.
RECURSIVE enqueueAwaited(_, _, _, _, _, _, _, _)
enqueueAwaited(qs, mem, dbv, links, depth, stamp, at, processing) ==
    IF links = <<>> THEN qs
    ELSE LET inserted == UNION {enqueue(q, mem, dbv, Head(links), depth,
                                        urlSimilarity(Head(links)), stamp, at) : q \in qs}
         IN  IF enqueueAccepts(mem, dbv, Head(links)) /\ ~processing
             THEN inserted
             ELSE enqueueAwaited(inserted, mem, dbv, Tail(links), depth, stamp, at,
                                 processing)

\* addInitialContent(url, content): the page goes to the store, its links are
\* enqueued one level down, and processQueue is called
AddInitialContent ==
    \E url \in Urls, content \in FetchContents, links \in SeqsUpTo(Urls, MaxLinks),
       dt \in Delays :
        \E o \in add(memoryStore, db, url, content, 0, similarity(content),
                     calculateMetric(similarity(content), 0, now, now), now) :
            /\ memoryStore' = o.mem
            /\ db' = o.db
            /\ queueStore' \in enqueueAwaited({queueStore}, o.mem, o.db, links, 1, now,
                                               now + dt, isProcessing)
            /\ now' = now + dt
            /\ StartLoop
            /\ UNCHANGED <<nextItem, aborted, failedHosts, queryVars, marked, callVars,
                           contentVars, networkVars,
                           collectorVars>>

\* add given a fetched page
PageAdd == \E url \in StoreUrls, content \in FetchContents : StoreAddStep(url, content)

\* the Content Store with a caller of enqueue at its side
NextIngest == PageAdd \/ StoreMarkAsIngested \/ AddInitialUrl

SpecIngest == InitStore /\ [][NextIngest]_vars

\* processQueue: the loop takes the next item and hands it to the worker,
\* whose crawlUrl makes a new AbortController
GetNext ==
    /\ pc = "next"
    /\ nextItem' \in getNextQueueItem(queueStore)
    /\ pc' = "crawl"
    /\ aborted' = FALSE
    /\ UNCHANGED <<now, storeVars, queueStore, isProcessing, loops, failedHosts,
                   queryVars, marked, callVars,contentVars, networkVars,
                   collectorVars>>

\* the worker returned a page with content: handleCrawlResult, then finally
CrawlOk ==
    /\ pc = "crawl"
    /\ \E content \in FetchContents, dt \in Delays,
          links \in SeqsUpTo({l \in LinkScores : nextItem.depth < DepthCap}, MaxLinks) :
          \E o \in handleCrawlResult(queueStore, memoryStore, db, nextItem.url, content,
                                     links, nextItem.depth, now, now + dt) :
              /\ memoryStore' = o.mem
              /\ db' = o.db
              /\ queueStore' \in removeQueueItem(o.queue, nextItem.url)
              /\ now' = now + dt
    /\ pc' = "next"
    /\ nextItem' = NoItem
    /\ failedHosts' = Generation(queueStore', failedHosts)
    /\ UNCHANGED <<isProcessing, loops, aborted, queryVars, marked, callVars,contentVars, networkVars,
                   collectorVars>>

\* the worker returned a page whose content the store does not keep and which
\* links to itself, or to nothing
CrawlUnstored ==
    /\ pc = "crawl"
    /\ \E dt \in Delays,
          links \in SeqsUpTo({l \in LinkScores : /\ l.link = nextItem.url
                                                 /\ nextItem.depth < DepthCap}, 1) :
          \E o \in handleCrawlResult(queueStore, memoryStore, db, nextItem.url,
                                     ShortProse, links, nextItem.depth, now, now + dt) :
              /\ memoryStore' = o.mem
              /\ db' = o.db
              /\ queueStore' \in removeQueueItem(o.queue, nextItem.url)
              /\ now' = now + dt
    /\ pc' = "next"
    /\ nextItem' = NoItem
    /\ failedHosts' = Generation(queueStore', failedHosts)
    /\ UNCHANGED <<isProcessing, loops, aborted, queryVars, marked, callVars,contentVars, networkVars,
                   collectorVars>>

\* the fetch timed out or failed: simpleFetch catches the error and returns
\* {links: [], content: ''}, crawlUrl passes it on, handleCrawlResult finds
\* nothing to store or enqueue
CrawlTimeout ==
    /\ pc = "crawl"
    /\ \E o \in handleCrawlResult(queueStore, memoryStore, db, nextItem.url,
                                  EmptyContent, <<>>, nextItem.depth, now, now) :
          /\ memoryStore' = o.mem
          /\ db' = o.db
          /\ queueStore' \in removeQueueItem(o.queue, nextItem.url)
    /\ pc' = "next"
    /\ nextItem' = NoItem
    /\ failedHosts' = Generation(queueStore', failedHosts)
    /\ UNCHANGED <<now, isProcessing, loops, aborted, queryVars, marked, callVars,contentVars, networkVars,
                   collectorVars>>

\* getAuthInfo or pool.queue rejected: catch runs handleFailedCrawl, then finally
CrawlError ==
    /\ pc = "crawl"
    /\ queueStore' \in removeQueueItem(handleFailedCrawl(queueStore, nextItem.url),
                                       nextItem.url)
    /\ pc' = "next"
    /\ nextItem' = NoItem
    /\ failedHosts' = Generation(queueStore', failedHosts \cup {nextItem.url.host})
    /\ UNCHANGED <<now, storeVars, isProcessing, loops, aborted, queryVars, marked, callVars,
                   contentVars, networkVars,
                   collectorVars>>

ClockTick ==
    /\ Tick
    /\ UNCHANGED <<storeVars, queueVars, queryVars, marked, callVars,contentVars, networkVars,
                   collectorVars>>

Init == InitStore

Next ==
    \/ AddInitialUrl
    \/ GetNext
    \/ CrawlOk
    \/ CrawlTimeout
    \/ CrawlError
    \/ ClockTick

Spec == Init /\ [][Next]_vars

\* a step that takes no time on the clock
Instant == now' = now

\* addInitialUrl(url) on any url, accepted or not
EnqueueCall(url) ==
    /\ \E dt \in Delays :
          /\ queueStore' \in enqueue(queueStore, memoryStore, db, url, 0,
                                     urlSimilarity(url), now, now + dt)
          /\ now' = now + dt
    /\ IF enqueueAccepts(memoryStore, db, url)
       THEN StartLoop
       ELSE UNCHANGED <<isProcessing, pc, loops>>
    /\ called' = url
    /\ UNCHANGED <<storeVars, nextItem, aborted, failedHosts, queryVars, marked,
                   inserting, lastProcessedDomain,contentVars, networkVars,
                   collectorVars>>

\* the urls of one page under its schemes and with a tracking parameter
EnqueueUrls == {UA, UAutm, UAhttp, UAftp}

AddAnyUrl == \E url \in EnqueueUrls : EnqueueCall(url)

\* enqueue's rejection checks at work: urls of several schemes are enqueued,
\* fetched and stored, all within one instant of the clock
NextEnqueue ==
    \/ AddAnyUrl /\ Instant
    \/ GetNext
    \/ CrawlOk /\ Instant

SpecEnqueue == Init /\ [][NextEnqueue]_vars

\* the fetch succeeded and handleCrawlResult threw after crawlStore.add: the
\* insert of the page's link into the queue store failed.  The catch block
\* runs handleFailedCrawl, then finally removes the task.
CrawlResultError ==
    /\ pc = "crawl"
    /\ \E content \in FetchContents :
          \E o \in add(memoryStore, db, nextItem.url, content, nextItem.depth,
                       similarity(content),
                       calculateMetric(similarity(content), nextItem.depth, now, now),
                       now) :
              /\ memoryStore' = o.mem
              /\ db' = o.db
    /\ queueStore' \in removeQueueItem(handleFailedCrawl(queueStore, nextItem.url),
                                       nextItem.url)
    /\ pc' = "next"
    /\ nextItem' = NoItem
    /\ failedHosts' = Generation(queueStore', failedHosts \cup {nextItem.url.host})
    /\ UNCHANGED <<now, isProcessing, loops, aborted, queryVars, marked, callVars,
                   contentVars, networkVars,
                   collectorVars>>

\* two urls of host a.test, one of a.test.example and one of bad.test
PurgeUrls == {UA, UAutm, UAlong, UB1}

AddPurgeUrl == \E url \in PurgeUrls : EnqueueCall(url)

\* the scheduler loop with dispatches that throw and results whose handling
\* throws
NextPurge ==
    \/ AddPurgeUrl
    \/ GetNext
    \/ CrawlError
    \/ CrawlResultError

SpecPurge == Init /\ [][NextPurge]_vars

\* At most MaxInserting enqueue calls are between the size check and the
\* insert of insertQueueItem at once.
MaxInserting == 2

\* enqueue up to the awaits of insertQueueItem that come before its insert:
\* the url is accepted, getQueueSize is read and, if the frontier is full,
\* removeLowestScoringItem has run.  Other calls run before the insert.
InsertCheck ==
    /\ BagCardinality(inserting) < MaxInserting
    /\ \E url \in Urls, dt \in Delays :
          /\ enqueueAccepts(memoryStore, db, url)
          /\ queueStore' \in (IF BagCardinality(queueStore) >= MAX_QUEUE_SIZE
                              THEN removeLowestScoringItem(queueStore)
                              ELSE {queueStore})
          /\ inserting' = inserting (+)
                              SetToBag({QueueItem(url, 0, now, urlSimilarity(url), 0)})
          /\ called' = url
          /\ now' = now + dt
    /\ UNCHANGED <<storeVars, isProcessing, pc, loops, nextItem, aborted, failedHosts,
                   queryVars, marked, lastProcessedDomain,contentVars, networkVars,
                   collectorVars>>

\* the rest of insertQueueItem and of enqueue: the metric is calculated, the
\* item is inserted and processQueue is called
InsertDone ==
    /\ \E item \in BagToSet(inserting) :
          /\ queueStore' = queueStore (+) SetToBag({
                 [item EXCEPT !.metric = calculateMetric(item.similarityScore,
                                               item.depth, item.timestamp, now)]})
          /\ inserting' = inserting (-) SetToBag({item})
    /\ StartLoop
    /\ UNCHANGED <<now, storeVars, nextItem, aborted, failedHosts, queryVars, marked,
                   called, lastProcessedDomain,contentVars, networkVars,
                   collectorVars>>

\* enqueue calls that overlap, and the loop that takes the tasks
NextInsert ==
    \/ InsertCheck
    \/ InsertDone
    \/ GetNext
    \/ CrawlTimeout

SpecInsert == Init /\ [][NextInsert]_vars

\* The variant of the scheduler with a memory queue and a last processed
\* domain.  Its frontier is the memory queue while that has room; MEMORY_QUEUE_SIZE
\* is 300 in the code.
MEMORY_QUEUE_SIZE == 3

\* sortMemoryQueue's order: similarityScore descending, depth ascending,
\* timestamp descending
SortsBefore(a, b) ==
    \/ a.similarityScore > b.similarityScore
    \/ a.similarityScore = b.similarityScore /\ a.depth < b.depth
    \/ a.similarityScore = b.similarityScore /\ a.depth = b.depth
          /\ a.timestamp > b.timestamp

\* getNextMemoryQueueItem: the first item in sorted order whose domain is
\* not the last processed domain; the first item if there is none
getNextMemoryQueueItem(q, last) ==
    LET other == {d \in BagToSet(q) : d.url.host # last}
        from  == IF other # {} THEN other ELSE BagToSet(q)
    IN  {d \in from : \A e \in from : ~SortsBefore(e, d)}

\* enqueue of that variant while the memory queue has room: push and sort,
\* then processQueue
EnqueueMemory ==
    /\ BagCardinality(queueStore) < MEMORY_QUEUE_SIZE
    /\ \E url \in Urls, dt \in Delays :
          /\ enqueueAccepts(memoryStore, db, url)
          /\ queueStore' = queueStore (+)
                              SetToBag({QueueItem(url, 0, now, urlSimilarity(url), 0)})
          /\ called' = url
          /\ now' = now + dt
    /\ StartLoop
    /\ UNCHANGED <<storeVars, nextItem, aborted, failedHosts, queryVars, marked,
                   inserting, lastProcessedDomain,contentVars, networkVars,
                   collectorVars>>

\* processQueue of that variant: getNextQueueItem splices the chosen item out
\* of the memory queue
GetNextDiverse ==
    /\ pc = "next"
    /\ nextItem' \in getNextMemoryQueueItem(queueStore, lastProcessedDomain)
    /\ queueStore' = queueStore (-) SetToBag({nextItem'})
    /\ pc' = "crawl"
    /\ aborted' = FALSE
    /\ UNCHANGED <<now, storeVars, isProcessing, loops, failedHosts, queryVars, marked,
                   callVars,contentVars, networkVars,
                   collectorVars>>

\* the worker returned a result without content or links: handleCrawlResult
\* stores nothing, the domain is recorded and removeQueueItem removes an
\* item of the same url
ProcessedDiverse ==
    /\ pc = "crawl"
    /\ lastProcessedDomain' = nextItem.url.host
    /\ queueStore' \in removeQueueItem(queueStore, nextItem.url)
    /\ pc' = "next"
    /\ nextItem' = NoItem
    /\ UNCHANGED <<now, storeVars, isProcessing, loops, aborted, failedHosts, queryVars,
                   marked, called, inserting,contentVars, networkVars,
                   collectorVars>>

NextDiverse ==
    \/ EnqueueMemory
    \/ GetNextDiverse
    \/ ProcessedDiverse

SpecDiverse == Init /\ [][NextDiverse]_vars

\* the one external enqueue a crawl starts from
FirstEnqueue == ~isProcessing /\ AddInitialUrl

\* the worker comes back with a result
FetchReturns == CrawlOk \/ CrawlUnstored

\* a crawl from one url, with no enqueue from outside after it
NextCrawl ==
    \/ FirstEnqueue
    \/ GetNext
    \/ CrawlOk
    \/ CrawlUnstored

SpecCrawl == Init /\ [][NextCrawl]_vars

\* the same, with the loop taking its next step and every fetch coming back
FairSpecCrawl ==
    /\ SpecCrawl
    /\ WF_vars(GetNext)
    /\ WF_vars(FetchReturns)

\* crawlUrl's timer: setTimeout(() => controller.abort(), TIMEOUT).  The
\* options crawlUrl hands to simpleFetch hold method and headers and not the
\* controller's signal, so no step of the fetch reads `aborted`.
AbortFires ==
    /\ pc = "crawl"
    /\ ~aborted
    /\ aborted' = TRUE
    /\ UNCHANGED <<now, storeVars, queueStore, isProcessing, pc, nextItem, loops,
                   failedHosts, queryVars, marked, callVars,contentVars, networkVars,
                   collectorVars>>

\* the server of bad.test accepts the connection and never sends a response;
\* every other server answers or refuses
ServerAnswers == nextItem.url.host # HostBad

\* the promise of fetch settles: with a response, or with an error that
\* simpleFetch turns into empty content
FetchSettles == ServerAnswers /\ (CrawlOk \/ CrawlTimeout)

\* the scheduler loop and the worker's fetch
NextWorker ==
    \/ AddInitialUrl
    \/ GetNext
    \/ AbortFires
    \/ ServerAnswers /\ CrawlOk
    \/ ServerAnswers /\ CrawlTimeout

SpecWorker == Init /\ [][NextWorker]_vars

\* the same, with the loop taking its next step, the timer firing and the
\* promise of a fetch settling whenever it can
FairSpecWorker ==
    /\ SpecWorker
    /\ WF_vars(GetNext)
    /\ WF_vars(AbortFires)
    /\ WF_vars(FetchSettles)

\* the scheduler loop with the callers of processQueue at its side:
\* addInitialContent with its enqueue calls, and the query-change handler with
\* its own, interleaved in every order within one instant of the clock
NextLoop ==
    \/ AddInitialContent /\ Instant
    \/ QueryChange /\ UNCHANGED seedHistory
    \/ EnqueueSeed /\ Instant /\ UNCHANGED seedHistory
    \/ QueryResume /\ UNCHANGED seedHistory
    \/ GetNext
    \/ CrawlTimeout

SpecLoop == Init /\ [][NextLoop]_vars

\* a query change, with the history of what it found queued and what it
\* inserted
QueryChangeRecorded ==
    /\ QueryChange
    /\ backlog' = BagToSet(queueStore)
    /\ seedTasks' = {}

EnqueueSeedRecorded ==
    /\ EnqueueSeed
    /\ seedTasks' = seedTasks \cup Inserted
    /\ UNCHANGED backlog

QueryResumeRecorded == QueryResume /\ UNCHANGED seedHistory

\* the scheduler loop under query changes
NextQuery ==
    \/ QueryChangeRecorded
    \/ EnqueueSeedRecorded
    \/ QueryResumeRecorded
    \/ GetNext
    \/ CrawlTimeout

SpecQuery == Init /\ [][NextQuery]_vars

\* the same, with the event loop running every continuation that is ready:
\* the handler's next turn and the scheduler loop's next step
FairSpecQuery ==
    /\ SpecQuery
    /\ WF_vars(EnqueueSeedRecorded)
    /\ WF_vars(QueryResumeRecorded)
    /\ WF_vars(GetNext)
    /\ WF_vars(CrawlTimeout)

\* addInitialContent finds at most MaxContentLinks links in its content.
MaxContentLinks == 2

\* addInitialContent(url, content) up to its loop over the links: the page
\* goes to the store and the links are extracted.  A call that waits for the
\* scheduler loop to end stays behind; a new call can be made.
ContentCall ==
    /\ contentPc \in {"idle", "blocked"}
    /\ \E url \in Urls, content \in FetchContents :
          \E o \in add(memoryStore, db, url, content, 0, similarity(content),
                       calculateMetric(similarity(content), 0, now, now), now) :
              /\ memoryStore' = o.mem
              /\ db' = o.db
    /\ contentLinks' \in SeqsUpTo(Urls, MaxContentLinks)
    /\ contentPc' = "enqueue"
    /\ UNCHANGED <<now, queueVars, queryVars, marked, callVars, networkVars,
                   collectorVars>>

\* one turn of addInitialContent's loop: await this.enqueue(link, depth + 1).
\* enqueue ends in `await this.processQueue()`, which returns at once when
\* the loop runs and otherwise runs the loop itself and does not return.
EnqueueLink ==
    /\ contentPc = "enqueue"
    /\ contentLinks # <<>>
    /\ contentLinks' = Tail(contentLinks)
    /\ IF enqueueAccepts(memoryStore, db, Head(contentLinks))
       THEN \E dt \in Delays :
                /\ queueStore' \in enqueue(queueStore, memoryStore, db,
                                           Head(contentLinks), 1,
                                           urlSimilarity(Head(contentLinks)),
                                           now, now + dt)
                /\ now' = now + dt
                /\ StartLoop
                /\ contentPc' = IF isProcessing THEN "enqueue" ELSE "blocked"
       ELSE UNCHANGED <<now, queueStore, isProcessing, pc, loops, contentPc>>
    /\ UNCHANGED <<storeVars, nextItem, aborted, failedHosts, queryVars, marked,
                   callVars, networkVars, collectorVars>>

\* addInitialContent after its loop: await this.processQueue(), and the
\* return to the caller
ContentResume ==
    /\ contentPc = "enqueue"
    /\ contentLinks = <<>>
    /\ StartLoop
    /\ contentPc' = IF isProcessing THEN "idle" ELSE "blocked"
    /\ UNCHANGED <<now, storeVars, queueStore, nextItem, aborted, failedHosts,
                   queryVars, marked, callVars, contentLinks, networkVars,
                   collectorVars>>

\* the scheduler loop with pages handed in by addInitialContent
NextContent ==
    \/ ContentCall
    \/ EnqueueLink
    \/ ContentResume
    \/ GetNext
    \/ CrawlTimeout

SpecContent == Init /\ [][NextContent]_vars

\* the same, with the event loop running every continuation that is ready:
\* the next turn of addInitialContent and the scheduler loop's next step
FairSpecContent ==
    /\ SpecContent
    /\ WF_vars(EnqueueLink)
    /\ WF_vars(ContentResume)
    /\ WF_vars(GetNext)
    /\ WF_vars(CrawlTimeout)

\* ---------------------------------------------- the Network Store on its own

\* The page makes at most MaxRequests requests.
MaxRequests == 3

\* the resource types of the requests, the statuses and the bodies of the
\* responses
ResourceTypes == {"XHR", "Document"}
Statuses == {200, 404}
Bodies == {Body(0), Body(1), Body(MaxBodyLength + 1)}

\* no body-available update of the request yet
NotAttached == [responseStatus |-> 0]

\* the response fields of an entry
ResponseFields(entry) ==
    [responseStatus |-> entry.responseStatus, responseHeaders |-> entry.responseHeaders,
     responseBody |-> entry.responseBody, contentHash |-> entry.contentHash]

\* the entries of the requestId in the buffer and the collection
EntriesOf(requestId) ==
    {d \in Range(networkMemory) \cup BagToSet(networkDb) : d.requestId = requestId}

\* handleRequest on Network.requestWillBeSent of the next request
HandleRequest ==
    /\ Len(attached) < MaxRequests
    /\ \E url \in {UA, UB1}, type \in ResourceTypes, dt \in Delays :
          LET requestId == Len(attached) + 1
          IN  /\ now' = now + dt
              /\ \E r \in addRequestToLog(networkMemory, networkDb, requestId, url,
                                          type, now + dt) :
                    /\ networkMemory' = r.mem
                    /\ networkDb' = r.db
                    /\ requestMap' =
                           IF r.stored
                           THEN [id \in DOMAIN requestMap \cup {requestId} |->
                                    IF id = requestId THEN 0 ELSE requestMap[id]]
                           ELSE requestMap
              /\ attached' = Append(attached, NotAttached)
    /\ UNCHANGED <<memoryStore, db, queueVars, queryVars, marked, callVars,
                   contentVars, collectorVars>>

\* handleResponse on Network.responseReceived, which a request has once
HandleResponse ==
    /\ \E requestId \in DOMAIN requestMap, status \in Statuses :
          /\ requestMap[requestId] = 0
          /\ requestMap' = [requestMap EXCEPT ![requestId] = status]
          /\ \E r \in updateLogWithResponse(networkMemory, networkDb, requestId,
                                            status, HeadersOf(status), NoBody) :
                /\ networkMemory' = r.mem
                /\ networkDb' = r.db
    /\ UNCHANGED <<now, memoryStore, db, queueVars, queryVars, marked, callVars,
                   contentVars, attached, collectorVars>>

\* handleLoadingFinished on Network.loadingFinished of a request whose
\* response was received: Network.getResponseBody gives the body or throws
HandleLoadingFinished ==
    /\ \E requestId \in DOMAIN requestMap :
          /\ requestMap[requestId] # 0
          /\ requestMap' = [id \in DOMAIN requestMap \ {requestId} |-> requestMap[id]]
          /\ \/ \E rawBody \in Bodies :
                   \E r \in updateLogWithResponse(networkMemory, networkDb, requestId,
                                requestMap[requestId],
                                HeadersOf(requestMap[requestId]), rawBody) :
                      /\ networkMemory' = r.mem
                      /\ networkDb' = r.db
                      /\ attached' = [attached EXCEPT ![requestId] =
                             [responseStatus |-> requestMap[requestId],
                              responseHeaders |-> HeadersOf(requestMap[requestId]),
                              responseBody |-> truncatedBody(rawBody),
                              contentHash |-> hashString(rawBody)]]
             \/ UNCHANGED <<networkMemory, networkDb, attached>>
    /\ UNCHANGED <<now, memoryStore, db, queueVars, queryVars, marked, callVars,
                   contentVars, collectorVars>>

NextNetwork ==
    \/ HandleRequest
    \/ HandleResponse
    \/ HandleLoadingFinished

SpecNetwork == Init /\ [][NextNetwork]_vars

\* ------------------------------------------ the Endpoint Collector on its own

\* A collector run is given at most MaxObservations observations.
MaxObservations == 2

\* /stocks/IBM/price, /stocks/AAPL/price and /stocks/1/price
ObservedPaths ==
    {<<"stocks", "IBM", "price">>, <<"stocks", "AAPL", "price">>,
     <<"stocks", "1", "price">>}

\* ?currency=USD and ?currency=EUR
ObservedQueries == {<<<<"currency", "USD">>>>, <<<<"currency", "EUR">>>>}

\* { method: 'GET' }
GetRequest == JsonObject(<<<<"method", JsonString(3)>>>>)

\* { price: 135.67, currency: 'USD' }, the same with the keys in the other
\* order, a body kept as the 2-character string it arrived as, and null
PriceResponse == JsonObject(<<<<"price", JsonNumber>>, <<"currency", JsonString(3)>>>>)
CurrencyFirstResponse == JsonObject(<<<<"currency", JsonString(3)>>, <<"price", JsonNumber>>>>)
TextResponse == JsonString(2)

ObservedResponses == {PriceResponse, CurrencyFirstResponse, TextResponse, JsonNull}

ObservationUniverse ==
    {RequestResponsePair(EndpointUrl(path, query), GetRequest, response) :
        path \in ObservedPaths, query \in ObservedQueries, response \in ObservedResponses}

InitCollector ==
    /\ now = 0
    /\ memoryStore = <<>>
    /\ db = EmptyBag
    /\ queueStore = EmptyBag
    /\ isProcessing = FALSE
    /\ pc = "idle"
    /\ nextItem = NoItem
    /\ loops = 0
    /\ aborted = FALSE
    /\ failedHosts = {}
    /\ seeds = <<>>
    /\ queryPc = "idle"
    /\ backlog = {}
    /\ seedTasks = {}
    /\ marked = {}
    /\ called = NoUrl
    /\ inserting = EmptyBag
    /\ lastProcessedDomain = NoDomain
    /\ contentLinks = <<>>
    /\ contentPc = "idle"
    /\ networkMemory = <<>>
    /\ networkDb = EmptyBag
    /\ requestMap = <<>>
    /\ attached = <<>>
    /\ observations \in {obs \in SUBSET ObservationUniverse :
                            Cardinality(obs) <= MaxObservations}
    /\ collectorA = EmptyCollector
    /\ pendingA = observations
    /\ collectorB = EmptyCollector
    /\ pendingB = observations

\* one turn of deriveTools' loop over the pairs, for each of the two runs
ProcessA ==
    \E pair \in pendingA :
        /\ collectorA' = processEndpoint(collectorA, pair)
        /\ pendingA' = pendingA \ {pair}
        /\ UNCHANGED <<now, storeVars, queueVars, queryVars, marked, callVars, contentVars, networkVars,
                   observations, collectorB, pendingB>>

ProcessB ==
    \E pair \in pendingB :
        /\ collectorB' = processEndpoint(collectorB, pair)
        /\ pendingB' = pendingB \ {pair}
        /\ UNCHANGED <<now, storeVars, queueVars, queryVars, marked, callVars, contentVars, networkVars,
                   observations, collectorA, pendingA>>

NextCollector == ProcessA \/ ProcessB

SpecCollector == InitCollector /\ [][NextCollector]_vars

\* ------------------------------------------------ Content Store properties

\* two urls with the same strippedUrl
SameNormalizedUrl(a, b) == extractQueryParams(a) = extractQueryParams(b)

\* the number of records, in the front buffer and the backing store, whose
\* url normalizes as `url` does
RecordsOf(mem, dbv, url) ==
    Cardinality({i \in 1..Len(mem) : SameNormalizedUrl(mem[i].url, url)})
    + BagCardinality(BagSelect(dbv, {d \in BagToSet(dbv) : SameNormalizedUrl(d.url, url)}))

\* C1: the Content Store holds at most one record per normalized URL (the URL
\* with its utm_* parameters stripped), whatever adds, ingestion marks and
\* evictions have happened.
C1_DedupInvariant ==
    \A url \in StoreUrls : RecordsOf(memoryStore, db, url) <= 1

\* C4: after any add, the front buffer and the backing store together hold
\* at most MAX_ITEMS records.
C4_EvictionBound ==
    [][StoreAdd => StoreSize(memoryStore', db') <= MAX_ITEMS]_vars

\* C8: an add whose content is shorter than the minimum useful length is
\* rejected and leaves the store as it was, whether or not the content parses
\* as JSON.
C8_ShortContentRejected ==
    [][\A url \in StoreUrls, content \in Contents :
           (content.len < MinUsefulLength /\ StoreAddStep(url, content))
               => UNCHANGED storeVars]_vars

\* the records of the store whose url is `url`
RecordsAt(mem, dbv, url) ==
    {mem[i] : i \in {j \in 1..Len(mem) : mem[j].url = url}}
        \cup {d \in BagToSet(dbv) : d.url = url}

\* C10: markAsIngested(url) on a url the store holds returns true, keeps the
\* number of records, leaves the record of url ingested with its content
\* cleared, and a second markAsIngested(url) returns true again and leaves
\* the store exactly as the first call left it.
C10_MarkIngestedIdempotent ==
    \A url \in StoreUrls :
        StoreHas(memoryStore, db, url) =>
            \A o \in markAsIngested(memoryStore, db, url) :
                /\ o.ok
                /\ StoreSize(o.mem, o.db) = StoreSize(memoryStore, db)
                /\ RecordsAt(o.mem, o.db, url) # {}
                /\ \A r \in RecordsAt(o.mem, o.db, url) :
                       r.ingested /\ r.content = Undefined
                /\ markAsIngested(o.mem, o.db, url)
                       = {[mem |-> o.mem, db |-> o.db, ok |-> TRUE]}

\* a record has been marked ingested and sits in the store, empty of content,
\* where a second markAsIngested finds it
C10_Witness ==
    \E d \in BagToSet(db) :
        /\ d.ingested
        /\ d.content = Undefined
        /\ markAsIngested(memoryStore, db, d.url)
               = {[mem |-> memoryStore, db |-> db, ok |-> TRUE]}

\* getUnIngested is asked for at most MaxLimit records.
MaxLimit == 2

\* C12: every record getUnIngested(limit) returns has ingested = false, and it
\* returns at most limit records, in every state of the store.
C12_UningestedOnly ==
    \A limit \in 0..MaxLimit :
        \A result \in getUnIngested(memoryStore, db, limit, now) :
            /\ Len(result) <= limit
            /\ \A i \in 1..Len(result) : ~result[i].ingested

\* the records of the store that are not ingested
UnIngested(mem, dbv) ==
    {r \in Range(mem) \cup BagToSet(dbv) : ~r.ingested}

\* C13: getUnIngested(limit) returns its records by metric descending, ties
\* by timestamp descending, and when more than limit records are not ingested
\* it returns limit of them, none ranking below a record it left out.
C13_UningestedRanked ==
    \A limit \in 1..MaxLimit :
        \A result \in getUnIngested(memoryStore, db, limit, now) :
            /\ \A i, j \in 1..Len(result) : i < j => ~MetricBefore(result[j], result[i])
            /\ Cardinality(UnIngested(memoryStore, db)) > limit =>
                   /\ Len(result) = limit
                   /\ \A x \in UnIngested(memoryStore, db) \ Range(result) :
                          \A i \in 1..Len(result) : ~MetricBefore(x, result[i])

\* the number of queued tasks for url
QueuedAt(q, url) ==
    BagCardinality(BagSelect(q, {d \in BagToSet(q) : d.url = url}))

\* C11, as stated: once markAsIngested(url) has returned true, no enqueue
\* ever adds a task for url to the frontier, whatever adds, ingestion marks
\* and enqueues come in between.
C11_NeverEnqueuedAgain ==
    [][AddInitialUrl =>
           \A url \in marked : QueuedAt(queueStore', url) <= QueuedAt(queueStore, url)]_vars

\* C11, amended: once markAsIngested(url) has returned true, no enqueue adds
\* a task for url to the frontier while the store holds the record of url,
\* and the record leaves the store only in an add that finds the front
\* buffer full and the store at its capacity.
C11_NotEnqueuedWhileHeld ==
    [][\A url \in marked :
           /\ (StoreHas(memoryStore, db, url)
                   /\ QueuedAt(queueStore', url) > QueuedAt(queueStore, url))
                  => ~AddInitialUrl
           /\ (StoreHas(memoryStore, db, url) /\ ~StoreHas(memoryStore', db', url))
                  => /\ PageAdd
                     /\ Len(memoryStore) >= MEMORY_STORE_SIZE
                     /\ StoreSize(memoryStore, db) >= MAX_ITEMS]_vars

\* the record of a url marked ingested is in the store, enqueue rejects the
\* url, and the frontier holds what enqueue accepted of the other urls
C11_Witness ==
    \E url \in marked :
        /\ \E d \in BagToSet(db) : d.url = url /\ d.ingested
        /\ ~enqueueAccepts(memoryStore, db, url)
        /\ QueuedAt(queueStore, url) = 0
        /\ queueStore # EmptyBag

\* the records of the front buffer and the backing store together
AllRecords(mem, dbv) ==
    dbv (+) [r \in Range(mem) |-> Cardinality({i \in DOMAIN mem : mem[i] = r})]

\* C29: an add that finds the store at or above its capacity and stores its
\* record evicts exactly one record, and no record of the front buffer or of
\* the backing store has a smaller timestamp than the evicted one.
C29_EvictsSingleOldest ==
    \A url \in StoreUrls, content \in Contents :
        \A o \in add(memoryStore, db, url, content, 0, similarity(content),
                     calculateMetric(similarity(content), 0, now, now), now) :
            (o.ok /\ StoreSize(memoryStore, db) >= MAX_ITEMS) =>
                LET held == AllRecords(memoryStore, db)
                    gone == held (-) AllRecords(o.mem, o.db)
                IN  /\ BagCardinality(gone) = 1
                    /\ \A g \in BagToSet(gone), r \in BagToSet(held) :
                           g.timestamp <= r.timestamp

\* C30: the front buffer holds at most MEMORY_STORE_SIZE records, and each of
\* them was added no earlier than every record that only the backing store
\* holds.
C30_BufferHoldsNewest ==
    /\ Len(memoryStore) <= MEMORY_STORE_SIZE
    /\ \A i \in DOMAIN memoryStore :
           \A d \in BagToSet(db) :
               (\A j \in DOMAIN memoryStore : memoryStore[j].url # d.url)
                   => memoryStore[i].timestamp >= d.timestamp

\* ---------------------------------------------- Crawl Scheduler properties

\* C2: no task whose depth exceeds MAX_DEPTH is ever handed to a worker.
C2_DepthBound ==
    pc = "crawl" => nextItem.depth <= MAX_DEPTH

\* C3: the task the loop takes next has the highest metric of the frontier:
\* no queued task with a higher metric is passed over, whatever its depth.
C3_MetricOrdering ==
    [][GetNext => \A d \in BagToSet(queueStore) : d.metric <= nextItem'.metric]_vars

\* the number of queued tasks whose url normalizes as `url` does
TasksOf(q, url) ==
    BagCardinality(BagSelect(q, {d \in BagToSet(q) : SameNormalizedUrl(d.url, url)}))

\* C6: the frontier never holds two tasks with the same normalized URL.
C6_FrontierUnique ==
    \A url \in Urls : TasksOf(queueStore, url) <= 1

\* C7: when the fetch of the dispatched task times out, no task of the same
\* host is left in the frontier when the loop goes on to the next task.
C7_TimeoutPurgesHost ==
    [][CrawlTimeout => \A d \in BagToSet(queueStore') : d.url.host # nextItem.url.host]_vars

\* C14: after a query change, the loop takes no task that was queued when the
\* change occurred while a seed the change has enqueued waits in the frontier.
C14_SeedsBeforeBacklog ==
    [][GetNext =>
          ~(/\ nextItem' \in backlog \ seedTasks
            /\ \E s \in seedTasks : CopiesIn(s, queueStore) > 0)]_vars

\* C15: every seed url of a query change that enqueue accepts is eventually
\* in the frontier, whether or not the loop ran when the change arrived.
C15_SeedsInserted ==
    \A u \in Urls :
        (queryPc = "enqueue" /\ u \in Range(seeds) /\ enqueueAccepts(memoryStore, db, u))
            ~> (QueuedAt(queueStore, u) > 0)

\* a step of a caller of processQueue: addInitialContent, one enqueue of the
\* query-change handler, or the handler's last call
CallerStep == AddInitialContent \/ EnqueueSeed \/ QueryResume

\* C16: at most one processQueue loop runs, and it runs exactly when the flag
\* is set; the calls made while it runs leave the loop where it is and
\* dispatch nothing; an enqueue that inserts its task while no loop runs
\* starts the loop.
C16_SingleLoop ==
    [][/\ loops' <= 1
       /\ isProcessing' <=> (loops' = 1)
       /\ (isProcessing /\ <<pc, nextItem, loops>>' # <<pc, nextItem, loops>>)
              => ~CallerStep
       /\ (~isProcessing /\ Inserted # {})
              => (isProcessing' /\ loops' = 1 /\ pc' = "next")]_vars

\* the loop is at work on a task after addInitialContent has stored a page,
\* and the query-change handler has enqueued a seed and returned
C16_Witness ==
    /\ loops = 1
    /\ pc = "crawl"
    /\ StoreSize(memoryStore, db) > 0
    /\ queryPc = "idle"
    /\ \E d \in BagToSet(queueStore) : d.similarityScore = SeedScore

\* C17: a crawl of finitely many urls with no further enqueue from outside
\* comes to an end: from some point on the frontier is empty and the loop
\* dispatches nothing, also when a page links to itself and the store
\* rejects its content.
C17_CrawlEnds ==
    <>[](queueStore = EmptyBag /\ pc # "crawl")

\* C18: every task handed to a worker comes back to the loop, also when the
\* server never responds: the loop does not stay on one fetch forever.
C18_FetchReturns ==
    (pc = "crawl") ~> (pc # "crawl")

\* a fetch failure has been handled: the fetch gave nothing (timeout, network
\* error) or the dispatch threw
FailureHandled == CrawlTimeout \/ CrawlError

\* C19: once a fetch failure for a url has been handled, the frontier holds no
\* task of that url's host; in particular the failed task is gone and has not
\* been inserted again.
C19_FailureDropsHost ==
    [][FailureHandled =>
          /\ QueuedAt(queueStore', nextItem.url) = 0
          /\ \A d \in BagToSet(queueStore') : d.url.host # nextItem.url.host]_vars

\* C20: after a fetch failure on a host that handleFailedCrawl has dealt with,
\* no task of that host is handed to a worker until the frontier has been
\* empty again, whatever is enqueued in the meantime.
C20_FailedHostNotDispatched ==
    pc = "crawl" => nextItem.url.host \notin failedHosts

\* C27: while the fetch of a task is under way, the frontier holds no task of
\* its url: the task was deleted when it was taken.
C27_InFlightNotQueued ==
    pc = "crawl" => QueuedAt(queueStore, nextItem.url) = 0

\* the schemes of the tasks in the frontier and of the task being crawled
TaskSchemes ==
    {d.url.scheme : d \in BagToSet(queueStore)}
        \cup (IF pc = "crawl" THEN {nextItem.url.scheme} ELSE {})

HoldsCompleted(mem, dbv, url) ==
    \E r \in Range(mem) \cup BagToSet(dbv) :
        SameNormalizedUrl(r.url, url) /\ r.content # Undefined

\* C25: an enqueue call for a url of which the Content Store holds a completed
\* record, be it under a url that differs in tracking parameters only, inserts
\* no task and leaves the frontier as it was.
C25_StoredUrlNotEnqueued ==
    \A url \in EnqueueUrls :
        HoldsCompleted(memoryStore, db, url)
            => enqueue(queueStore, memoryStore, db, url, 0, urlSimilarity(url),
                       now, now) = {queueStore}

\* the tasks of frontier q that satisfy `keep` are in frontier r as often
KeepsTasks(q, r, keep) ==
    \A d \in BagToSet(q) \cap keep : CopiesIn(d, r) = CopiesIn(d, q)

\* C21: the purge after the failure of a url removes tasks of exactly that
\* url's host: every queued task of another host, also of a host that begins
\* with the failed host's name, stays in the frontier.
C21_PurgeExactHost ==
    [][CrawlError =>
          KeepsTasks(queueStore, queueStore',
                     {d \in BagToSet(queueStore) : d.url.host # nextItem.url.host})]_vars

\* C22: an error raised after the fetch has succeeded, while the result is
\* stored or its links are enqueued, does not purge the queued tasks of the
\* page's host; only the dispatched task leaves the frontier.
C22_ResultErrorNoPurge ==
    [][CrawlResultError =>
          KeepsTasks(queueStore, queueStore',
                     {d \in BagToSet(queueStore) :
                         d.url.host = nextItem.url.host /\ d.url # nextItem.url})]_vars

\* C23: a failure while a task is processed leaves the loop running, the flag
\* set and the loop about to take its next task, and the tasks of other hosts
\* are still in the frontier for it to take.
C23_FailureAbsorbed ==
    [][(CrawlError \/ CrawlResultError) =>
          /\ isProcessing' /\ loops' = 1 /\ pc' = "next"
          /\ \A d \in BagToSet(queueStore) :
                 d.url.host # nextItem.url.host => CopiesIn(d, queueStore') > 0]_vars

\* C26: when no enqueue is between its size check and its insert, the
\* frontier holds at most MAX_QUEUE_SIZE tasks.
C26_FrontierBounded ==
    inserting = EmptyBag => BagCardinality(queueStore) <= MAX_QUEUE_SIZE

\* C28: the task the loop takes is never behind a queued task in the order of
\* priority: the preference for another host only chooses among the tasks
\* that are first in that order.
C28_DiversityOnlyBreaksTies ==
    [][GetNextDiverse =>
          \A e \in BagToSet(queueStore) : ~SortsBefore(e, nextItem')]_vars

\* C31: for a task handed to the worker, crawlUrl returns completed = false
\* when the extracted content is empty or only whitespace, and completed =
\* true only when it has a character that is no whitespace.
C31_CompletedIffContent ==
    pc = "crawl" =>
        \A content \in FetchedTexts :
            crawlUrl(nextItem.url, nextItem.depth, content).completed
                = (content.trimmed > 0)

\* C32: every link of a page given to addInitialContent that enqueue accepts
\* is eventually in the frontier one level below the page, whether or not the
\* loop ran when the call was made, and the call returns to its caller.
C32_ContentLinksEnqueued ==
    /\ \A u \in Urls :
           (contentPc = "enqueue" /\ u \in Range(contentLinks)
                /\ enqueueAccepts(memoryStore, db, u))
               ~> (\E d \in BagToSet(queueStore) : d.url = u /\ d.depth = 1)
    /\ (contentPc = "enqueue") ~> (contentPc = "idle")

\* ------------------------------------------- Endpoint Collector properties

\* a collector's Tools as the claims compare them: pattern, schemaSignature
\* and the queryParamOptions with each parameter's values as a set
ToolViews(collector) ==
    {[pattern |-> tool.pattern, schemaSignature |-> tool.schemaSignature,
      options |-> {[key |-> e.key, values |-> Range(e.values)] :
                       e \in Range(tool.queryParamOptions)}] :
        tool \in Range(collector.tools)}

\* both runs have gone through all the observations
RunsDone == pendingA = {} /\ pendingB = {}

\* C5, as stated: whatever the observations, two collector runs over them,
\* in any two orders, end with the same set of Tools compared by pattern,
\* schemaSignature and queryParamOptions as value sets.
C5_OrderIndependent ==
    RunsDone => ToolViews(collectorA) = ToolViews(collectorB)

\* the observations processEndpoint can process that share a url also share
\* the generalized path and the schema signature
SharedUrlsAgree(obs) ==
    \A o1, o2 \in {o \in obs : ~ObjectKeysThrows(o.responsePayload)} :
        o1.url = o2.url =>
            /\ generalizePath(o1.url.path, o1.responsePayload)
                   = generalizePath(o2.url.path, o2.responsePayload)
            /\ generateSchemaSignature(o1.requestPayload, o1.responsePayload)
                   = generateSchemaSignature(o2.requestPayload, o2.responsePayload)

\* C5, amended: when the observations that share a url also share the
\* generalized path and the schema signature, two collector runs over them,
\* in any two orders, end with the same set of Tools compared by pattern,
\* schemaSignature and queryParamOptions as value sets.
C5_OrderIndependentWhenUrlsAgree ==
    (RunsDone /\ SharedUrlsAgree(observations))
        => ToolViews(collectorA) = ToolViews(collectorB)

\* two observations went through the two runs in opposite orders and ended
\* in one Tool holding both
C5_Witness ==
    /\ RunsDone
    /\ SharedUrlsAgree(observations)
    /\ Len(collectorA.endpoints) = 2
    /\ Len(collectorB.endpoints) = 2
    /\ collectorA.endpoints[1] = collectorB.endpoints[2]
    /\ collectorA.endpoints[1] # collectorB.endpoints[1]
    /\ Len(collectorA.tools) = 1
    /\ Len(collectorA.tools[1].endpoints) = 2

\* the keys of a response payload: those of a JSON object
ResponseKeys(value) ==
    IF value.t = "object" THEN Range(ObjectKeys(value)) ELSE {}

\* two payloads of the same structure: the same type and, for objects, the
\* same keys in the same order with values of the same structure
RECURSIVE SameStructure(_, _)
SameStructure(a, b) ==
    /\ a.t = b.t
    /\ Len(a.props) = Len(b.props)
    /\ \A i \in 1..Len(a.props) :
           /\ a.props[i][1] = b.props[i][1]
           /\ SameStructure(a.props[i][2], b.props[i][2])

\* the query parameters two observations both carry, with different values
DifferingParams(o1, o2) ==
    {k \in {o1.url.query[i][1] : i \in 1..Len(o1.url.query)} :
        \E i \in 1..Len(o1.url.query), j \in 1..Len(o2.url.query) :
            /\ o1.url.query[i][1] = k
            /\ o2.url.query[j][1] = k
            /\ o1.url.query[i][2] # o2.url.query[j][2]}

\* the values observed for parameter k in two observations
ObservedValues(o1, o2, k) ==
    {q[2] : q \in {e \in Range(o1.url.query) \cup Range(o2.url.query) : e[1] = k}}

\* two observations as C9 describes them: paths that differ in exactly one
\* segment, not the first, which is no key of the response; payloads of the
\* same structure; a query parameter whose values differ
CollapsingPair(o1, o2) ==
    /\ ~ObjectKeysThrows(o1.responsePayload)
    /\ ~ObjectKeysThrows(o2.responsePayload)
    /\ Len(o1.url.path) = Len(o2.url.path)
    /\ \E i \in 2..Len(o1.url.path) :
           /\ {j \in 1..Len(o1.url.path) : o1.url.path[j] # o2.url.path[j]} = {i}
           /\ o1.url.path[i] \notin ResponseKeys(o1.responsePayload)
           /\ o2.url.path[i] \notin ResponseKeys(o2.responsePayload)
    /\ SameStructure(o1.requestPayload, o2.requestPayload)
    /\ SameStructure(o1.responsePayload, o2.responsePayload)
    /\ DifferingParams(o1, o2) # {}

\* C9: a collector given two such observations ends with exactly one Tool,
\* whose queryParamOptions for the parameter are the two observed values.
C9_CollapseIntoOneTool ==
    \A o1, o2 \in observations :
        (pendingA = {} /\ observations = {o1, o2} /\ CollapsingPair(o1, o2))
            => /\ Len(collectorA.tools) = 1
               /\ \A k \in DifferingParams(o1, o2) :
                      \E e \in Range(collectorA.tools[1].queryParamOptions) :
                          e.key = k /\ Range(e.values) = ObservedValues(o1, o2, k)

\* the endpoint a step has added to collectorA
AddedEndpoint == collectorA'.endpoints[Len(collectorA'.endpoints)]

\* C33: no two Tools of a collector share both pattern and schemaSignature,
\* and a step that creates a Tool does so for an endpoint that no Tool the
\* collector had matched on both.
C33_ToolsDistinct ==
    /\ [](\A c \in {collectorA, collectorB} :
             \A i, j \in 1..Len(c.tools) :
                 (/\ c.tools[i].pattern = c.tools[j].pattern
                  /\ c.tools[i].schemaSignature = c.tools[j].schemaSignature)
                     => i = j)
    /\ [][(ProcessA /\ Len(collectorA'.tools) > Len(collectorA.tools)) =>
              \A tool \in Range(collectorA.tools) :
                  ~(/\ tool.pattern = AddedEndpoint.pathInfo.path
                    /\ tool.schemaSignature = AddedEndpoint.schemaSignature)]_vars

\* a Tool has absorbed the second endpoint that matched it on both
C33_Witness ==
    /\ pendingA = {}
    /\ Len(collectorA.endpoints) = 2
    /\ Len(collectorA.tools) = 1
    /\ Len(collectorA.tools[1].endpoints) = 2

\* the urls a collector has processed
ProcessedUrls(collector) ==
    {collector.endpoints[i].url : i \in 1..Len(collector.endpoints)}

\* C34: processEndpoint on a pair whose url the collector has processed
\* leaves the collector's endpoints and its Tools, with their endpoints and
\* queryParamOptions, as they were, whatever payloads the pair carries.
C34_RepeatedUrlNoOp ==
    \A pair \in ObservationUniverse :
        pair.url \in ProcessedUrls(collectorA)
            => processEndpoint(collectorA, pair) = collectorA

\* the collector was given two observations of one url with different
\* payloads and holds the first alone
C34_Witness ==
    /\ pendingA = {}
    /\ Cardinality(observations) = 2
    /\ Cardinality({o.url : o \in observations}) = 1
    /\ \A o \in observations : ~ObjectKeysThrows(o.responsePayload)
    /\ Len(collectorA.endpoints) = 1
    /\ Len(collectorA.tools) = 1
    /\ Len(collectorA.tools[1].endpoints) = 1

\* C35: the pattern of every endpoint a collector holds has as many segments
\* as the path of its url; it keeps the first segment and every segment
\* that is a key of the response payload, and has the placeholder of its
\* index in the place of every other segment.
C35_PathGeneralized ==
    \A e \in Range(collectorA.endpoints) :
        /\ Len(e.pathInfo.path) = Len(e.url.path)
        /\ \A i \in 1..Len(e.url.path) :
               e.pathInfo.path[i] =
                   IF i = 1 \/ e.url.path[i] \in ResponseKeys(e.responsePayload)
                   THEN e.url.path[i]
                   ELSE ParamNames[i]

\* C36: generateToolDefinitions returns as many definitions as it is given
\* Tools: no two Tools of a collector share an entry.
C36_OneDefinitionPerTool ==
    Cardinality(DOMAIN generateToolDefinitions(collectorA.tools)) = Len(collectorA.tools)

\* C38: every Tool getTools returns has at least two endpoints, and no Tool
\* of the collector that has a single endpoint is among them.
C38_ToolsHaveTwoEndpoints ==
    \A c \in {collectorA, collectorB} :
        /\ \A tool \in Range(getTools(c)) : Len(tool.endpoints) >= 2
        /\ \A tool \in Range(c.tools) :
               Len(tool.endpoints) = 1 => tool \notin Range(getTools(c))

\* the pass is over, and the collector holds a Tool inferred from a single
\* observation, which getTools leaves out
C38_Witness ==
    /\ pendingA = {}
    /\ \E tool \in Range(collectorA.tools) : Len(tool.endpoints) = 1
    /\ getTools(collectorA) = <<>>

\* ------------------------------------------------- Network Store properties

\* C37: the pass of getTools goes over every observation with a 2xx status
\* and a response body, the ones in the in-memory buffer included.
C37_PassCoversBuffer ==
    findPairsEverywhere(networkMemory, networkDb) \subseteq findPairs(networkDb)

\* C39: an observation carries no response body before its body-available
\* update, and the response fields that update gave it ever after.
C39_ImmutableOnceAttached ==
    \A requestId \in DOMAIN attached :
        \A entry \in EntriesOf(requestId) :
            IF attached[requestId] = NotAttached
            THEN entry.responseBody = NoBody
            ELSE ResponseFields(entry) = attached[requestId]

====
